---- MODULE Spec2Model ----
(***************************************************************************)
(* Routing-accuracy scoring engine of eval-workbook.                       *)
(*                                                                         *)
(* Modelled code:                                                          *)
(*   src/src/evaluation/evaluators/routing_accuracy/routing_accuracy.py    *)
(*       class RoutingAccuracyEvaluator (_evaluate, __aggregate__)         *)
(*   src/src/evaluation/routing_evaluation.py                              *)
(*       the standalone scorer evaluate_routing                            *)
(*                                                                         *)
(* Conventions.                                                            *)
(*  - A Python list of str is a TLA+ sequence of strings; Python index i   *)
(*    is TLA+ index i + 1.                                                 *)
(*  - A Python set of str is a TLA+ set; a dict is a function whose        *)
(*    domain is the set of its keys.                                       *)
(*  - A float that the code produces with round(x, 2) is held as the       *)
(*    integer number of hundredths: 0.0 is 0, 0.67 is 67, 1.0 is 100.      *)
(*    The float literals 0.0 and 1.0 are Zero and One.                     *)
(***************************************************************************)
EXTENDS Integers, Sequences, FiniteSets, TLC

VARIABLES
    route,            \* argument `route` of _evaluate / `output` of evaluate_routing
    reference_route,  \* argument `reference_route` / `reference_output`
    result,           \* value returned by RoutingAccuracyEvaluator._evaluate
    routing,          \* value returned by evaluate_routing (standalone module)
    results,          \* argument `results` of __aggregate__
    agent_matrics,    \* value returned by __aggregate__
    step_types_to_evaluate,  \* argument of RoutingAccuracyEvaluator.__init__
    evaluator,        \* the RoutingAccuracyEvaluator instance (self)
    route_steps,      \* argument `route` of __call__: a list of step dicts
    reference_steps,  \* argument `reference_route` of __call__
    calls,            \* the activations of __call__ in progress, per caller
    matcher,          \* the locals of a greedy matching loop in progress
    mcs_agent,        \* the MCSAgent instance (self)
    activation        \* the locals of the MCSAgent method in progress

\* The state of the evaluator facade.
callVars ==
    <<step_types_to_evaluate, evaluator, route_steps, reference_steps, calls,
      matcher>>

\* The state of the MCS agent.
agentVars == <<mcs_agent, activation>>

vars == <<route, reference_route, result, routing, results, agent_matrics,
          callVars, agentVars>>

(***************************************************************************)
(* Bounds of the model.                                                    *)
(***************************************************************************)
MaxLen == 3        \* longest route / reference route drawn as an input
MaxResults == 3    \* longest list of results handed to __aggregate__
MaxSteps == 3      \* longest list of steps passed as `route` to __call__
MaxRefSteps == 2   \* longest list of steps passed as `reference_route`
MaxConcSteps == 2  \* longest `route` shared by concurrent calls of __call__
MaxScanLen == 3    \* longest sequence handed to a greedy loop followed by step
MaxShortLen == 2   \* longest of the short sequences scored next to long ones
LongLen == 201     \* number of repeated elements at the start of a long sequence
MaxScored == 2     \* longest list of scored results handed to __aggregate__
MaxTimeout == 2    \* largest `timeout` of an MCSAgent, in clock ticks
MaxPollInterval == 2  \* largest `poll_interval` of an MCSAgent, in clock ticks
MaxActivities == 1 \* longest list of activities in one polled response

\* The step identifiers of the usage examples, listed in Python's str
\* order ("A" < "B" < ...), which sorted() uses.
NameOrder == <<"A", "B", "C", "D", "E">>

\* Step identifiers drawn as inputs of the scorers.
Names == {"A", "B", "C"}

\* Position of a name in str order.
Ord(s) == CHOOSE i \in 1..Len(NameOrder) : NameOrder[i] = s

SeqsUpTo(S, n) == UNION {[1..k -> S] : k \in 0..n}

Routes == SeqsUpTo(Names, MaxLen)

\* "Not returned yet".
NoResult == [returned |-> FALSE]

\* "Not constructed yet" / "not passed yet".
NoEvaluator == [constructed |-> FALSE]
NoArgument == [passed |-> FALSE]

\* No activation of __call__.
NoCalls == <<>>

\* No greedy matching loop is being followed.
NoMatcher == [pc |-> "none"]

\* No MCSAgent has been constructed, and none of its methods runs.
NoAgent == [constructed |-> FALSE]
NoActivation == [pc |-> "none"]

Zero == 0
One == 100

(***************************************************************************)
(* Python built-ins used by the scorer.                                    *)
(***************************************************************************)

\* set(xs)
SetOf(xs) == {xs[i] : i \in 1..Len(xs)}

\* int(b)
ToInt(b) == IF b THEN 1 ELSE 0

RECURSIVE Insert(_, _)
\* Insert x into the sorted list xs, after the elements that are <= x.
Insert(x, xs) ==
    IF xs = <<>> THEN <<x>>
    ELSE IF Ord(x) < Ord(Head(xs)) THEN <<x>> \o xs
    ELSE <<Head(xs)>> \o Insert(x, Tail(xs))

\* Variant of Sorted that sorts the distinct elements, sorted(set(xs)).
Sorted_set(xs) ==
    LET S == {xs[i] : i \in 1..Len(xs)}
        n == Cardinality(S)
    IN  CHOOSE ys \in [1..n -> S] :
            \A i, j \in 1..n : i < j => Ord(ys[i]) < Ord(ys[j])

RECURSIVE Sorted(_)
\* sorted(xs): a new list with the elements of xs in ascending str order.
Sorted(xs) ==
    IF xs = <<>> THEN <<>>
    ELSE Insert(xs[Len(xs)], Sorted(SubSeq(xs, 1, Len(xs) - 1)))

\* What a metric holds when its division raised ZeroDivisionError; no
\* number of hundredths.
ZeroDivisionError == -1

\* Variant of Round2 that truncates to 2 decimals instead of rounding.
Round2_truncate(num, den) ==
    IF den = 0 THEN ZeroDivisionError ELSE (100 * num) \div den

\* round(num / den, 2) in hundredths, for integers num >= 0, den >= 0; the
\* division raises when den is 0.
\* Python rounds the double nearest to num/den to the nearest hundredth; a
\* double lies exactly halfway between two hundredths only when it is an odd
\* multiple of 1/8, and then round() takes the even hundredth.
Round2(num, den) ==
    IF den = 0 THEN ZeroDivisionError
    ELSE
    LET q == (100 * num) \div den
        r == (100 * num) % den
    IN  IF 2 * r < den THEN q
        ELSE IF 2 * r > den THEN q + 1
        ELSE IF q % 2 = 0 THEN q ELSE q + 1

(***************************************************************************)
(* RoutingAccuracyEvaluator: match predicates.                             *)
(***************************************************************************)

\* Variant of _ordered_match that compares the pairs of zip(route,
\* reference_route), which stops at the shorter list.
_ordered_match_zip(r, ref) ==
    ToInt(\A i \in 1..(IF Len(r) <= Len(ref) THEN Len(r) ELSE Len(ref)) :
              r[i] = ref[i])

_ordered_match(r, ref) == ToInt(r = ref)

\* Variant of _unordered_match that compares set(route) with
\* set(reference_route).
_unordered_match_sets(r, ref) == ToInt(SetOf(r) = SetOf(ref))

_unordered_match(r, ref) == ToInt(Sorted(r) = Sorted(ref))

\* Variant of _unordered_match_dedup that compares the sorted lists, without
\* deduplicating.
_unordered_match_dedup_sorted(r, ref) == ToInt(Sorted(r) = Sorted(ref))

_unordered_match_dedup(r, ref) == ToInt(SetOf(r) = SetOf(ref))

\* Variant of FirstUnmatched without the `if idx in matched: continue`
\* test: an element may be consumed again (many-to-one matching).
FirstEqual(needle, haystack, matched) ==
    LET hits == {idx \in 1..Len(haystack) : haystack[idx] = needle}
    IN  IF hits = {} THEN 0
        ELSE CHOOSE idx \in hits : \A j \in hits : idx <= j

\* The inner `for idx, item in enumerate(haystack)` scan with its `continue`
\* and `break`: the lowest index not in `matched` whose element equals
\* `needle`, or 0 when the scan ends without a break.
FirstUnmatched(needle, haystack, matched) ==
    LET hits == {idx \in 1..Len(haystack) :
                    idx \notin matched /\ haystack[idx] = needle}
    IN  IF hits = {} THEN 0
        ELSE CHOOSE idx \in hits : \A j \in hits : idx <= j

RECURSIVE SupersetLoop(_, _, _, _)
\* The `for ref_item in reference_route` loop of _superset_match from its
\* i-th iteration on, with matched_route_indices = matched.
SupersetLoop(r, ref, i, matched) ==
    IF i > Len(ref) THEN 1
    ELSE LET idx == FirstUnmatched(ref[i], r, matched)
         IN  IF idx = 0 THEN 0
             ELSE SupersetLoop(r, ref, i + 1, matched \cup {idx})

\* Variant of _superset_match that compares sets, losing multiplicity.
_superset_match_sets(r, ref) == ToInt(SetOf(ref) \subseteq SetOf(r))

_superset_match(r, ref) == SupersetLoop(r, ref, 1, {})

\* Variant of _superset_match_dedup with the proper-subset test
\* `reference_set < route_set`.
_superset_match_dedup_proper(r, ref) ==
    ToInt(SetOf(ref) \subseteq SetOf(r) /\ SetOf(ref) # SetOf(r))

_superset_match_dedup(r, ref) == ToInt(SetOf(ref) \subseteq SetOf(r))

\* Variant of _subset_match that forgets to swap the arguments.
_subset_match_unswapped(r, ref) == _superset_match(r, ref)

_subset_match(r, ref) == _superset_match(ref, r)

\* Variant of _subset_match_dedup with the subset test the other way round.
_subset_match_dedup_unswapped(r, ref) == ToInt(SetOf(ref) \subseteq SetOf(r))

_subset_match_dedup(r, ref) == ToInt(SetOf(r) \subseteq SetOf(ref))

(***************************************************************************)
(* RoutingAccuracyEvaluator: precision and recall.                         *)
(***************************************************************************)

RECURSIVE PrecisionLoop(_, _, _, _, _)
\* The `for out_item in route` loop of _precision from its i-th iteration
\* on; the value of `matches` when the loop ends.
PrecisionLoop(r, ref, i, matched, matches) ==
    IF i > Len(r) THEN matches
    ELSE LET idx == FirstUnmatched(r[i], ref, matched)
         IN  IF idx = 0 THEN PrecisionLoop(r, ref, i + 1, matched, matches)
             ELSE PrecisionLoop(r, ref, i + 1, matched \cup {idx}, matches + 1)

\* Variant of PrecisionMatches that counts the route elements found anywhere
\* in reference_route, consuming nothing.
PrecisionMatches_membership(r, ref) ==
    Cardinality({i \in 1..Len(r) : r[i] \in SetOf(ref)})

\* `matches` of _precision after its loop.
PrecisionMatches(r, ref) == PrecisionLoop(r, ref, 1, {}, 0)

\* Variant of _precision with the both-empty shortcut of the dedup metrics.
_precision_both_empty_one(r, ref) ==
    IF r = <<>>
    THEN (IF ref = <<>> THEN One ELSE Zero)
    ELSE Round2(PrecisionMatches(r, ref), Len(r))

\* Variant of _precision that counts every route element found anywhere in
\* reference_route, matched or not.
_precision_many_to_one(r, ref) ==
    IF r = <<>> THEN Zero
    ELSE Round2(Cardinality({i \in 1..Len(r) : r[i] \in SetOf(ref)}), Len(r))

\* Variant of _precision without the `if not route` guard.
_precision_unguarded(r, ref) == Round2(PrecisionMatches(r, ref), Len(r))

_precision(r, ref) ==
    IF r = <<>> THEN Zero
    ELSE Round2(PrecisionMatches(r, ref), Len(r))

\* Variant of _precision_dedup that divides by len(route), not
\* len(route_set).
_precision_dedup_len_route(r, ref) ==
    IF SetOf(r) = {}
    THEN (IF SetOf(ref) = {} THEN One ELSE Zero)
    ELSE Round2(Cardinality(SetOf(r) \cap SetOf(ref)), Len(r))

_precision_dedup(r, ref) ==
    LET route_set == SetOf(r)
        reference_set == SetOf(ref)
    IN  IF route_set = {}
        THEN (IF reference_set = {} THEN One ELSE Zero)
        ELSE Round2(Cardinality(route_set \cap reference_set),
                    Cardinality(route_set))

RECURSIVE RecallLoop(_, _, _, _, _)
\* The `for ref_item in reference_route` loop of _recall from its i-th
\* iteration on; the value of `matches` when the loop ends.
RecallLoop(r, ref, i, matched, matches) ==
    IF i > Len(ref) THEN matches
    ELSE LET idx == FirstUnmatched(ref[i], r, matched)
         IN  IF idx = 0 THEN RecallLoop(r, ref, i + 1, matched, matches)
             ELSE RecallLoop(r, ref, i + 1, matched \cup {idx}, matches + 1)

\* `matches` of _recall after its loop.
RecallMatches(r, ref) == RecallLoop(r, ref, 1, {}, 0)

\* Variant of _recall without the both-empty branch, as in the standalone
\* recall.
_recall_no_both_empty(r, ref) ==
    IF ref = <<>> THEN Zero
    ELSE Round2(RecallMatches(r, ref), Len(ref))

_recall(r, ref) ==
    IF ref = <<>>
    THEN (IF r = <<>> THEN One ELSE Zero)
    ELSE Round2(RecallMatches(r, ref), Len(ref))

\* Variant of _recall_dedup that divides by len(reference_route), not
\* len(reference_set).
_recall_dedup_len_reference(r, ref) ==
    IF SetOf(ref) = {}
    THEN (IF SetOf(r) = {} THEN One ELSE Zero)
    ELSE Round2(Cardinality(SetOf(r) \cap SetOf(ref)), Len(ref))

_recall_dedup(r, ref) ==
    LET route_set == SetOf(r)
        reference_set == SetOf(ref)
    IN  IF reference_set = {}
        THEN (IF route_set = {} THEN One ELSE Zero)
        ELSE Round2(Cardinality(route_set \cap reference_set),
                    Cardinality(reference_set))

(***************************************************************************)
(* RoutingAccuracyEvaluator: step stats and the result record.             *)
(***************************************************************************)

\* Variant of _step_stats that counts occurrences instead of deduplicating.
_step_stats_by_occurrence(r, ref) ==
    LET occ(v, xs) == Cardinality({i \in 1..Len(xs) : xs[i] = v})
    IN  [step \in SetOf(r) \cup SetOf(ref) |->
            IF occ(step, r) > 0 /\ occ(step, ref) > 0
            THEN [tp |-> 1, fp |-> 0, fn |-> 0]
            ELSE IF occ(step, r) > 0
            THEN [tp |-> 0, fp |-> occ(step, r), fn |-> 0]
            ELSE [tp |-> 0, fp |-> 0, fn |-> occ(step, ref)]]

\* Variant of _step_stats that leaves the counts of a step found in both
\* sets at 0.
_step_stats_unmatched_only(r, ref) ==
    [step \in SetOf(r) \cup SetOf(ref) |->
        IF step \in SetOf(r) /\ step \in SetOf(ref)
        THEN [tp |-> 0, fp |-> 0, fn |-> 0]
        ELSE IF step \in SetOf(r)
        THEN [tp |-> 0, fp |-> 1, fn |-> 0]
        ELSE [tp |-> 0, fp |-> 0, fn |-> 1]]

_step_stats(r, ref) ==
    LET route_set == SetOf(r)
        reference_set == SetOf(ref)
        all_steps == route_set \cup reference_set
    IN  [step \in all_steps |->
            IF step \in route_set /\ step \in reference_set
            THEN [tp |-> 1, fp |-> 0, fn |-> 0]
            ELSE IF step \in route_set /\ step \notin reference_set
            THEN [tp |-> 0, fp |-> 1, fn |-> 0]
            ELSE [tp |-> 0, fp |-> 0, fn |-> 1]]

_evaluate(r, ref) ==
    [ordered_match |-> _ordered_match(r, ref),
     unordered_match |-> _unordered_match(r, ref),
     superset_match |-> _superset_match(r, ref),
     subset_match |-> _subset_match(r, ref),
     precision |-> _precision(r, ref),
     recall |-> _recall(r, ref),
     unordered_match_dedup |-> _unordered_match_dedup(r, ref),
     superset_match_dedup |-> _superset_match_dedup(r, ref),
     subset_match_dedup |-> _subset_match_dedup(r, ref),
     precision_dedup |-> _precision_dedup(r, ref),
     recall_dedup |-> _recall_dedup(r, ref),
     step_stats |-> _step_stats(r, ref),
     route_evaluated |-> r,
     reference_route_evaluated |-> ref]

(***************************************************************************)
(* Standalone scorer, module routing_evaluation.                           *)
(***************************************************************************)

ordered_match(output, reference_output) == ToInt(output = reference_output)

unordered_match(output, reference_output) ==
    ToInt(Sorted(output) = Sorted(reference_output))

RECURSIVE superset_loop(_, _, _, _)
\* The `for ref_item in reference_output` loop of superset_match from its
\* i-th iteration on, with matched_output_indices = matched.
superset_loop(output, reference_output, i, matched) ==
    IF i > Len(reference_output) THEN 1
    ELSE LET idx == FirstUnmatched(reference_output[i], output, matched)
         IN  IF idx = 0 THEN 0
             ELSE superset_loop(output, reference_output, i + 1,
                                matched \cup {idx})

superset_match(output, reference_output) ==
    superset_loop(output, reference_output, 1, {})

subset_match(output, reference_output) ==
    superset_match(reference_output, output)

RECURSIVE precision_loop(_, _, _, _, _)
\* The `for out_item in output` loop of precision; the final `matches`.
precision_loop(output, reference_output, i, matched, matches) ==
    IF i > Len(output) THEN matches
    ELSE LET idx == FirstUnmatched(output[i], reference_output, matched)
         IN  IF idx = 0
             THEN precision_loop(output, reference_output, i + 1,
                                 matched, matches)
             ELSE precision_loop(output, reference_output, i + 1,
                                 matched \cup {idx}, matches + 1)

precision(output, reference_output) ==
    IF output = <<>> THEN Zero
    ELSE Round2(precision_loop(output, reference_output, 1, {}, 0),
                Len(output))

RECURSIVE recall_loop(_, _, _, _, _)
\* The `for ref_item in reference_output` loop of recall; the final `matches`.
recall_loop(output, reference_output, i, matched, matches) ==
    IF i > Len(reference_output) THEN matches
    ELSE LET idx == FirstUnmatched(reference_output[i], output, matched)
         IN  IF idx = 0
             THEN recall_loop(output, reference_output, i + 1,
                              matched, matches)
             ELSE recall_loop(output, reference_output, i + 1,
                              matched \cup {idx}, matches + 1)

\* Variant of recall with the both-empty branch of the class method.
recall_both_empty_one(output, reference_output) ==
    IF reference_output = <<>>
    THEN (IF output = <<>> THEN One ELSE Zero)
    ELSE Round2(recall_loop(output, reference_output, 1, {}, 0),
                Len(reference_output))

recall(output, reference_output) ==
    IF reference_output = <<>> THEN Zero
    ELSE Round2(recall_loop(output, reference_output, 1, {}, 0),
                Len(reference_output))

evaluate_routing(output, reference_output) ==
    [ordered_match |-> ordered_match(output, reference_output),
     unordered_match |-> unordered_match(output, reference_output),
     superset_match |-> superset_match(output, reference_output),
     subset_match |-> subset_match(output, reference_output),
     precision |-> precision(output, reference_output),
     recall |-> recall(output, reference_output)]

(***************************************************************************)
(* Specification Spec: the two scorers applied to one pair of sequences.   *)
(***************************************************************************)

Init ==
    /\ route \in Routes
    /\ reference_route \in Routes
    /\ result = NoResult
    /\ routing = NoResult
    /\ results = <<>>
    /\ agent_matrics = NoResult
    /\ step_types_to_evaluate = NoArgument
    /\ evaluator = NoEvaluator
    /\ route_steps = <<>>
    /\ reference_steps = <<>>
    /\ calls = NoCalls
    /\ matcher = NoMatcher
    /\ mcs_agent = NoAgent
    /\ activation = NoActivation

\* RoutingAccuracyEvaluator._evaluate(route, reference_route) returns.
Evaluate ==
    /\ result = NoResult
    /\ result' = _evaluate(route, reference_route)
    /\ UNCHANGED <<route, reference_route, routing, results, agent_matrics>>
    /\ UNCHANGED callVars
    /\ UNCHANGED agentVars

\* routing_evaluation.evaluate_routing(route, reference_route) returns.
EvaluateRouting ==
    /\ routing = NoResult
    /\ routing' = evaluate_routing(route, reference_route)
    /\ UNCHANGED <<route, reference_route, result, results, agent_matrics>>
    /\ UNCHANGED callVars
    /\ UNCHANGED agentVars

Next == Evaluate \/ EvaluateRouting

Spec == Init /\ [][Next]_vars

(***************************************************************************)
(* Vocabulary of the properties, stated without the code's loops.          *)
(***************************************************************************)

\* Number of occurrences of v in xs.
Count(v, xs) == Cardinality({i \in 1..Len(xs) : xs[i] = v})

Min(a, b) == IF a <= b THEN a ELSE b

\* xs is a sub-multiset of ys.
SubMultiset(xs, ys) == \A v \in SetOf(xs) : Count(v, xs) <= Count(v, ys)

RECURSIVE RemoveFirst(_, _)
\* xs without its first occurrence of x.
RemoveFirst(x, xs) ==
    IF xs = <<>> THEN <<>>
    ELSE IF Head(xs) = x THEN Tail(xs)
    ELSE <<Head(xs)>> \o RemoveFirst(x, Tail(xs))

RECURSIVE GreedyCount(_, _)
\* The greedy one-to-one matched count: each needle, in order, consumes the
\* first haystack element equal to it that is still there.
GreedyCount(needles, haystack) ==
    IF needles = <<>> THEN 0
    ELSE IF Head(needles) \in SetOf(haystack)
    THEN 1 + GreedyCount(Tail(needles), RemoveFirst(Head(needles), haystack))
    ELSE GreedyCount(Tail(needles), haystack)

RECURSIVE SumMin(_, _, _)
\* Sum over the identifiers v in S of min(count of v in xs, count of v in ys).
SumMin(S, xs, ys) ==
    IF S = {} THEN 0
    ELSE LET v == CHOOSE x \in S : TRUE
         IN  Min(Count(v, xs), Count(v, ys)) + SumMin(S \ {v}, xs, ys)

\* v hundredths is num/den rounded to 2 decimals: no hundredth is nearer.
IsRounded2(v, num, den) ==
    /\ 2 * (100 * num - v * den) <= den
    /\ 2 * (v * den - 100 * num) <= den

Evaluated == result # NoResult

(***************************************************************************)
(* Properties of the Scorer, checked under Spec.                           *)
(***************************************************************************)

C3_Precision ==
    Evaluated =>
        IF route = <<>>
        THEN result.precision = Zero
        ELSE IsRounded2(result.precision,
                        GreedyCount(route, reference_route),
                        Len(route))

\* C3 witness: a precision of 2/3 = 0.67 against a reference of another
\* length, with a repeated route identifier.
C3_Witness ==
    /\ Evaluated
    /\ Len(route) = 3
    /\ Len(reference_route) = 2
    /\ Cardinality(SetOf(route)) = 2
    /\ result.precision = 67

\* C4: superset_match is 1 exactly when reference_route is a sub-multiset
\* of route (every identifier occurs in route at least as often as in
\* reference_route), otherwise 0; it is 1 when reference_route is empty.
C4_SupersetIsSubMultiset ==
    Evaluated =>
        /\ result.superset_match \in {0, 1}
        /\ result.superset_match = 1 <=>
               \A v \in Names : Count(v, route) >= Count(v, reference_route)
        /\ reference_route = <<>> => result.superset_match = 1

\* C4 witness: a reference route that repeats an identifier is covered by a
\* longer route.
C4_Witness ==
    /\ Evaluated
    /\ Len(reference_route) = 2
    /\ reference_route[1] = reference_route[2]
    /\ Len(route) = 3
    /\ route[1] # reference_route[1]
    /\ result.superset_match = 1

\* C5: the number of matches the greedy first-available matcher finds, the
\* numerator of precision and of recall, is the sum over the distinct
\* identifiers v of min(count of v in route, count of v in reference_route).
C5_GreedyIsMaximum ==
    Evaluated =>
        LET best == SumMin(Names, route, reference_route)
        IN  /\ PrecisionMatches(route, reference_route) = best
            /\ RecallMatches(route, reference_route) = best
            /\ route # <<>> =>
                   result.precision = Round2(best, Len(route))
            /\ reference_route # <<>> =>
                   result.recall = Round2(best, Len(reference_route))

\* C5 witness: two sequences of length 3 that both repeat an identifier and
\* match in exactly 2 places.
C5_Witness ==
    /\ Evaluated
    /\ Len(route) = 3
    /\ Len(reference_route) = 3
    /\ Cardinality(SetOf(route)) = 2
    /\ Cardinality(SetOf(reference_route)) = 2
    /\ SetOf(route) = SetOf(reference_route)
    /\ PrecisionMatches(route, reference_route) = 2

\* C6: superset_match(a, b) = 1 if and only if subset_match(b, a) = 1, and
\* subset_match(route, reference_route) is the superset-match algorithm run
\* on (reference_route, route): 1 exactly when route is a sub-multiset of
\* reference_route.
C6_SubsetMirrorsSuperset ==
    Evaluated =>
        /\ result.superset_match = 1 <=>
               _subset_match(reference_route, route) = 1
        /\ result.subset_match = _superset_match(reference_route, route)
        /\ result.subset_match = 1 <=> SubMultiset(route, reference_route)

\* C6 witness: a route that is a strict sub-multiset of its reference, so
\* that subset_match = 1 and superset_match = 0.
C6_Witness ==
    /\ Evaluated
    /\ Len(route) = 2
    /\ Len(reference_route) = 3
    /\ result.subset_match = 1
    /\ result.superset_match = 0

\* C7: step_stats has exactly the distinct identifiers of route and of
\* reference_route as its keys, and maps an identifier to {tp:1,fp:0,fn:0}
\* if it is in both, {tp:0,fp:1,fn:0} if only in route, {tp:0,fp:0,fn:1} if
\* only in reference_route, whatever the multiplicities.
C7_StepStats ==
    Evaluated =>
        LET stats == result.step_stats
        IN  /\ DOMAIN stats = SetOf(route) \cup SetOf(reference_route)
            /\ \A v \in DOMAIN stats :
                   /\ DOMAIN stats[v] = {"tp", "fp", "fn"}
                   /\ stats[v].tp =
                          ToInt(Count(v, route) > 0
                                /\ Count(v, reference_route) > 0)
                   /\ stats[v].fp =
                          ToInt(Count(v, route) > 0
                                /\ Count(v, reference_route) = 0)
                   /\ stats[v].fn =
                          ToInt(Count(v, route) = 0
                                /\ Count(v, reference_route) > 0)
                   /\ stats[v].tp + stats[v].fp + stats[v].fn = 1

\* C7 witness: one result with a true positive, a false positive that the
\* route repeats, and a false negative.
C7_Witness ==
    /\ Evaluated
    /\ \E a, b, c \in DOMAIN result.step_stats :
           /\ result.step_stats[a].tp = 1
           /\ result.step_stats[b].fp = 1
           /\ result.step_stats[c].fn = 1
           /\ Count(b, route) = 2

\* The distinct identifiers of xs.
Distinct(xs) == {v \in Names : Count(v, xs) > 0}

\* C14: for every pair of sequences, empty ones included, precision,
\* recall, precision_dedup and recall_dedup are produced as values without
\* a division fault, and each lies in the closed interval [0, 1].
C14_ScoresInUnitInterval ==
    Evaluated =>
        \A score \in {result.precision, result.recall,
                      result.precision_dedup, result.recall_dedup} :
            /\ score # ZeroDivisionError
            /\ Zero <= score
            /\ score <= One

\* C14 witness: the empty route scored against a non-empty reference
\* route, where len(route) and len(set(route)) are 0.
C14_Witness ==
    /\ Evaluated
    /\ route = <<>>
    /\ Len(reference_route) = 2
    /\ result.precision = Zero
    /\ result.precision_dedup = Zero
    /\ result.recall = Zero

\* C15: unordered_match is 1 exactly when the two sequences are equal as
\* multisets (same identifiers with the same multiplicities, order
\* ignored), else 0; in particular unordered_match(a, a) = 1.
C15_UnorderedIsMultisetEquality ==
    Evaluated =>
        /\ result.unordered_match \in {0, 1}
        /\ result.unordered_match = 1 <=>
               \A v \in Names : Count(v, route) = Count(v, reference_route)
        /\ route = reference_route => result.unordered_match = 1

\* C15 witness: two different orderings of one multiset with a repeated
\* identifier.
C15_Witness ==
    /\ Evaluated
    /\ Len(route) = 3
    /\ Cardinality(SetOf(route)) = 2
    /\ route # reference_route
    /\ result.unordered_match = 1

\* C16: ordered_match is 1 exactly when the two sequences have the same
\* length and equal elements at every position, else 0; in particular
\* ordered_match(a, a) = 1.
C16_OrderedIsPositionwiseEquality ==
    Evaluated =>
        /\ result.ordered_match \in {0, 1}
        /\ result.ordered_match = 1 <=>
               /\ Len(route) = Len(reference_route)
               /\ \A i \in 1..Len(route) : route[i] = reference_route[i]
        /\ route = reference_route => result.ordered_match = 1

\* C16 witness: a sequence of three different identifiers scored against
\* itself.
C16_Witness ==
    /\ Evaluated
    /\ Len(route) = 3
    /\ Cardinality(SetOf(route)) = 3
    /\ result.ordered_match = 1

\* C17: precision_dedup is |set(route) & set(reference_route)| /
\* |set(route)| rounded to 2 decimals when route has an identifier; it is
\* 1.0 when both are empty and 0.0 when only route is empty, as in
\* precision_dedup([], ["x"]) = 0.0.
C17_PrecisionDedup ==
    Evaluated =>
        /\ IF route # <<>>
           THEN IsRounded2(result.precision_dedup,
                           Cardinality(Distinct(route)
                                       \cap Distinct(reference_route)),
                           Cardinality(Distinct(route)))
           ELSE result.precision_dedup =
                    (IF reference_route = <<>> THEN One ELSE Zero)
        /\ (route = <<>> /\ Len(reference_route) = 1) =>
               result.precision_dedup = Zero

\* C17 witness: a route that repeats the one identifier it shares with the
\* reference, so that precision_dedup = 1/2 while precision = 1/3.
C17_Witness ==
    /\ Evaluated
    /\ result.precision_dedup = 50
    /\ result.precision = 33

\* C18: recall_dedup is |set(route) & set(reference_route)| /
\* |set(reference_route)| rounded to 2 decimals when reference_route has an
\* identifier; it is 1.0 when both are empty and 0.0 when only
\* reference_route is empty.
C18_RecallDedup ==
    Evaluated =>
        IF reference_route # <<>>
        THEN IsRounded2(result.recall_dedup,
                        Cardinality(Distinct(route)
                                    \cap Distinct(reference_route)),
                        Cardinality(Distinct(reference_route)))
        ELSE result.recall_dedup = (IF route = <<>> THEN One ELSE Zero)

\* C18 witness: a reference that repeats the one identifier it shares with
\* the route, so that recall_dedup = 1/2 while recall = 1/3.
C18_Witness ==
    /\ Evaluated
    /\ result.recall_dedup = 50
    /\ result.recall = 33

\* C19: unordered_match_dedup is 1 exactly when the set of distinct
\* identifiers of route equals that of reference_route, regardless of
\* multiplicity or position; else 0.
C19_UnorderedDedupIsSetEquality ==
    Evaluated =>
        /\ result.unordered_match_dedup \in {0, 1}
        /\ result.unordered_match_dedup = 1 <=>
               \A v \in Names :
                   (Count(v, route) > 0) <=> (Count(v, reference_route) > 0)

\* C19 witness: two sequences of different lengths over the same two
\* identifiers: unordered_match_dedup = 1 while unordered_match = 0.
C19_Witness ==
    /\ Evaluated
    /\ Len(route) = 3
    /\ Len(reference_route) = 2
    /\ result.unordered_match_dedup = 1
    /\ result.unordered_match = 0

\* C20: superset_match_dedup is 1 exactly when the distinct identifiers of
\* reference_route are a subset of those of route, and subset_match_dedup
\* is its mirror: subset_match_dedup(a, b) = superset_match_dedup(b, a) = 1
\* exactly when the distinct identifiers of a are a subset of those of b.
C20_DedupSupersetAndSubset ==
    Evaluated =>
        /\ result.superset_match_dedup \in {0, 1}
        /\ result.subset_match_dedup \in {0, 1}
        /\ result.superset_match_dedup = 1 <=>
               \A v \in Names :
                   Count(v, reference_route) > 0 => Count(v, route) > 0
        /\ result.subset_match_dedup = 1 <=>
               \A v \in Names :
                   Count(v, route) > 0 => Count(v, reference_route) > 0
        /\ result.subset_match_dedup =
               _superset_match_dedup(reference_route, route)

\* C20 witness: a reference that repeats an identifier the route has once:
\* superset_match_dedup = 1 though superset_match = 0, and
\* subset_match_dedup = 0.
C20_Witness ==
    /\ Evaluated
    /\ result.superset_match_dedup = 1
    /\ result.superset_match = 0
    /\ result.subset_match_dedup = 0

\* route and reference_route hold the same distinct identifiers, and some
\* identifier occurs a different number of times in the two.
SameNamesOtherCounts(xs, ys) ==
    /\ Distinct(xs) = Distinct(ys)
    /\ \E v \in Names : Count(v, xs) # Count(v, ys)

\* C21: raw metrics are sensitive to multiplicity and dedup metrics are
\* not: when route and reference_route have the same distinct identifiers
\* but some identifier occurs a different number of times,
\* unordered_match_dedup = 1 and unordered_match = 0; route = [A, A] and
\* reference_route = [A] give precision 0.5, recall 1.0,
\* unordered_match_dedup 1 and unordered_match 0.
C21_MultiplicitySensitivity ==
    Evaluated =>
        /\ SameNamesOtherCounts(route, reference_route) =>
               /\ result.unordered_match_dedup = 1
               /\ result.unordered_match = 0
        /\ (route = <<"A", "A">> /\ reference_route = <<"A">>) =>
               /\ result.precision = 50
               /\ result.recall = 100
               /\ result.unordered_match_dedup = 1
               /\ result.unordered_match = 0

\* C21 witness: [A, A] has been evaluated against [A].
C21_Witness ==
    /\ Evaluated
    /\ route = <<"A", "A">>
    /\ reference_route = <<"A">>
    /\ SameNamesOtherCounts(route, reference_route)
    /\ result.unordered_match = 0

\* Both scorers have returned.
BothEvaluated == Evaluated /\ routing # NoResult

C25_MatchCountIsSymmetric ==
    (Evaluated /\ route # <<>> /\ reference_route # <<>>) =>
        LET m == PrecisionMatches(route, reference_route)
        IN  /\ m = RecallMatches(route, reference_route)
            /\ IsRounded2(result.precision, m, Len(route))
            /\ IsRounded2(result.recall, m, Len(reference_route))

\* C25 witness: [A, A] has been evaluated against [A, B, A]; both loops
\* count 2 matches, precision is 1.0 and recall 0.67.
C25_Witness ==
    /\ Evaluated
    /\ route = <<"A", "A">>
    /\ reference_route = <<"A", "B", "A">>
    /\ PrecisionMatches(route, reference_route) = 2
    /\ result.precision = 100
    /\ result.recall = 67

\* C26: the match predicates of one result are consistent for every input
\* pair: ordered_match = 1 implies unordered_match = 1; unordered_match = 1
\* holds exactly when superset_match = 1 and subset_match = 1; and each raw
\* predicate implies its dedup counterpart.
C26_MatchPredicatesConsistent ==
    Evaluated =>
        /\ result.ordered_match = 1 => result.unordered_match = 1
        /\ result.unordered_match = 1 <=>
               (result.superset_match = 1 /\ result.subset_match = 1)
        /\ result.unordered_match = 1 => result.unordered_match_dedup = 1
        /\ result.superset_match = 1 => result.superset_match_dedup = 1
        /\ result.subset_match = 1 => result.subset_match_dedup = 1

\* C26 witness: [B, A, A] has been evaluated against [A, B, A]: every
\* predicate but ordered_match is 1.
C26_Witness ==
    /\ Evaluated
    /\ route = <<"B", "A", "A">>
    /\ reference_route = <<"A", "B", "A">>
    /\ result.ordered_match = 0
    /\ result.unordered_match = 1
    /\ result.superset_match = 1
    /\ result.subset_match = 1
    /\ result.superset_match_dedup = 1

(***************************************************************************)
(* RoutingAccuracyEvaluator: constructor and __call__ (the facade).        *)
(***************************************************************************)

\* Step names and step types drawn as inputs of __call__.
StepNames == {"A", "B"}
StepTypes == {"agent", "topic"}

\* A step dict {"name": ..., "type": ...}.
Steps == [name : StepNames, type : StepTypes]

\* The lists passed as step_types_to_evaluate.
TypeLists == {<<>>, <<"agent">>, <<"topic">>, <<"agent", "topic">>}

\* The default of the parameter step_types_to_evaluate.
DefaultStepTypes == <<"agent">>

\* Variant of __init__ that rejects an empty list with a ValueError.
__init___strict(types) ==
    IF types = <<>> THEN [raised |-> "ValueError"]
    ELSE [_step_types_to_evaluate |-> types]

\* RoutingAccuracyEvaluator.__init__: the instance it leaves.
__init__(types) == [_step_types_to_evaluate |-> types]

\* ev is an instance, not the outcome of a constructor that raised.
IsInstance(ev) == "_step_types_to_evaluate" \in DOMAIN ev

\* x in xs, for a list xs.
InList(x, xs) == \E i \in 1..Len(xs) : xs[i] = x

RECURSIVE StepNamesUnfiltered(_, _)
\* Variant of StepNamesOfTypes without the `if step["type"] in ...` clause.
StepNamesUnfiltered(steps, types) ==
    IF steps = <<>> THEN <<>>
    ELSE <<Head(steps).name>> \o StepNamesUnfiltered(Tail(steps), types)

RECURSIVE StepNamesOfTypes(_, _)
\* [step["name"] for step in steps if step["type"] in types]
StepNamesOfTypes(steps, types) ==
    IF steps = <<>> THEN <<>>
    ELSE (IF InList(Head(steps).type, types)
          THEN <<Head(steps).name>> ELSE <<>>)
         \o StepNamesOfTypes(Tail(steps), types)

\* RoutingAccuracyEvaluator.__call__(route=r, reference_route=ref).
__call__(self, r, ref) ==
    LET route_to_evaluate ==
            StepNamesOfTypes(r, self._step_types_to_evaluate)
        reference_route_to_evaluate ==
            StepNamesOfTypes(ref, self._step_types_to_evaluate)
    IN  _evaluate(route_to_evaluate, reference_route_to_evaluate)

(***************************************************************************)
(* Specification SpecCall: an evaluator is constructed, then called once.  *)
(***************************************************************************)

InitCall ==
    /\ route = <<>>
    /\ reference_route = <<>>
    /\ result = NoResult
    /\ routing = NoResult
    /\ results = <<>>
    /\ agent_matrics = NoResult
    /\ step_types_to_evaluate = NoArgument
    /\ evaluator = NoEvaluator
    /\ route_steps = <<>>
    /\ reference_steps = <<>>
    /\ calls = NoCalls
    /\ matcher = NoMatcher
    /\ mcs_agent = NoAgent
    /\ activation = NoActivation

\* RoutingAccuracyEvaluator(step_types_to_evaluate=types)
Construct(types) ==
    /\ evaluator = NoEvaluator
    /\ step_types_to_evaluate' = types
    /\ evaluator' = __init__(types)
    /\ UNCHANGED <<matcher, route, reference_route, result, routing, results,
                   agent_matrics, route_steps, reference_steps, calls>>
    /\ UNCHANGED agentVars

\* RoutingAccuracyEvaluator(): the parameter takes its default.
ConstructDefault ==
    /\ evaluator = NoEvaluator
    /\ step_types_to_evaluate' = DefaultStepTypes
    /\ evaluator' = __init__(DefaultStepTypes)
    /\ UNCHANGED <<matcher, route, reference_route, result, routing, results,
                   agent_matrics, route_steps, reference_steps, calls>>
    /\ UNCHANGED agentVars

\* An instance exists and has not been called yet.
CanCall == IsInstance(evaluator) /\ result = NoResult

\* evaluator(route=r, reference_route=ref) returns; route and
\* reference_route become the two lists it passed to _evaluate.
Call(r, ref) ==
    /\ CanCall
    /\ route_steps' = r
    /\ reference_steps' = ref
    /\ route' = StepNamesOfTypes(r, evaluator._step_types_to_evaluate)
    /\ reference_route' =
           StepNamesOfTypes(ref, evaluator._step_types_to_evaluate)
    /\ result' = __call__(evaluator, r, ref)
    /\ UNCHANGED <<matcher, routing, results, agent_matrics, step_types_to_evaluate,
                   evaluator, calls>>
    /\ UNCHANGED agentVars

NextCall ==
    \/ \E types \in TypeLists : Construct(types)
    \/ ConstructDefault
    \/ /\ CanCall
       /\ \E r \in SeqsUpTo(Steps, MaxSteps),
             ref \in SeqsUpTo(Steps, MaxRefSteps) : Call(r, ref)

SpecCall == InitCall /\ [][NextCall]_vars

(***************************************************************************)
(* Properties of the facade, checked under SpecCall.                       *)
(***************************************************************************)

\* The names of the steps whose type is one of types, in their order.
KeptNames(steps, types) ==
    LET Keep(step) == step.type \in SetOf(types)
        kept == SelectSeq(steps, Keep)
    IN  [i \in 1..Len(kept) |-> kept[i].name]

\* The steps whose type is one of types, in their order.
KeptSteps(steps, types) ==
    LET Keep(step) == step.type \in SetOf(types)
    IN  SelectSeq(steps, Keep)

\* C11: score (__call__) evaluates exactly the names of the steps whose
\* type is in step_types_to_evaluate, in their original order and with
\* duplicates preserved, for both arguments; route_evaluated and
\* reference_route_evaluated are these two name sequences, every other
\* field is the Scorer's value on them, and steps of any other type
\* influence no field.
C11_CallFiltersByStepType ==
    Evaluated =>
        LET types == evaluator._step_types_to_evaluate
            names == KeptNames(route_steps, types)
            reference_names == KeptNames(reference_steps, types)
        IN  /\ result.route_evaluated = names
            /\ result.reference_route_evaluated = reference_names
            /\ result = _evaluate(names, reference_names)
            /\ result = __call__(evaluator,
                                 KeptSteps(route_steps, types),
                                 KeptSteps(reference_steps, types))

\* C11 witness: a route that repeats an agent step around a topic step,
\* scored with the default configuration: the two agent names are kept.
C11_Witness ==
    /\ Evaluated
    /\ evaluator._step_types_to_evaluate = <<"agent">>
    /\ Len(route_steps) = 3
    /\ route_steps[1] = route_steps[3]
    /\ route_steps[1].type = "agent"
    /\ route_steps[2].type = "topic"
    /\ Len(result.route_evaluated) = 2
    /\ Len(reference_steps) = 2
    /\ Len(result.reference_route_evaluated) = 1

\* C12 as stated: no evaluator instance whose step-type list is empty is
\* ever available to score a route; constructing one with an empty list
\* fails with a configuration error.
C12_EmptyStepTypesRejected ==
    /\ IsInstance(evaluator) => evaluator._step_types_to_evaluate # <<>>
    /\ step_types_to_evaluate = <<>> => ~IsInstance(evaluator)

\* C12 amended: constructing RoutingAccuracyEvaluator with an empty
\* step_types_to_evaluate list succeeds and the instance keeps the empty
\* list; every step is then filtered out, so each score evaluates the
\* empty route against the empty reference route.
C12_EmptyStepTypesAccepted ==
    step_types_to_evaluate = <<>> =>
        /\ IsInstance(evaluator)
        /\ evaluator._step_types_to_evaluate = <<>>
        /\ Evaluated =>
               /\ result.route_evaluated = <<>>
               /\ result.reference_route_evaluated = <<>>
               /\ result = _evaluate(<<>>, <<>>)

\* C12 witness: an evaluator constructed with the empty list has scored a
\* route of three agent steps against a reference of two agent steps.
C12_Witness ==
    /\ step_types_to_evaluate = <<>>
    /\ Evaluated
    /\ Len(route_steps) = 3
    /\ Len(reference_steps) = 2
    /\ \A i \in 1..3 : route_steps[i].type = "agent"
    /\ \A i \in 1..2 : reference_steps[i].type = "agent"
    /\ result.route_evaluated = <<>>
    /\ result.recall = One

(***************************************************************************)
(* RoutingAccuracyEvaluator.__aggregate__.                                 *)
(***************************************************************************)

\* Agents drawn as keys of the step_stats inputs of __aggregate__.
AggAgents == {"A", "B"}

\* The step_stats values drawn for an agent.  For "A": the three that
\* _step_stats produces and the empty dict, for which every
\* stats.get(key, 0) takes its default.  For "B", a second agent whose
\* totals and keys must stay apart from those of "A": a true positive and
\* a false negative.
StatChoices(agent) ==
    IF agent = "A"
    THEN {[tp |-> 1, fp |-> 0, fn |-> 0],
          [tp |-> 0, fp |-> 1, fn |-> 0],
          [tp |-> 0, fp |-> 0, fn |-> 1],
          <<>>}
    ELSE {[tp |-> 1, fp |-> 0, fn |-> 0],
          [tp |-> 0, fp |-> 0, fn |-> 1]}

\* The step_stats dicts drawn as inputs: every subset of the agents, each
\* with one of its stats values.
StepStatsInputs ==
    UNION {{f \in [S -> UNION {StatChoices(a) : a \in S}] :
               \A a \in S : f[a] \in StatChoices(a)} :
           S \in SUBSET AggAgents}

\* dict.get(key, 0)
Get(d, key) == IF key \in DOMAIN d THEN d[key] ELSE 0

\* d[key] = value
Put(d, key, value) ==
    [k \in DOMAIN d \cup {key} |-> IF k = key THEN value ELSE d[k]]

\* Variant of AccumulateRecord with `=` in place of `+=`: a record's counts
\* replace the agent's running totals.
AccumulateRecord_overwrite(agent_stats, step_stats) ==
    [agent \in DOMAIN agent_stats \cup DOMAIN step_stats |->
        IF agent \in DOMAIN step_stats
        THEN [tp |-> Get(step_stats[agent], "tp"),
              fp |-> Get(step_stats[agent], "fp"),
              fn |-> Get(step_stats[agent], "fn")]
        ELSE agent_stats[agent]]

\* Variant of AccumulateRecord with the three `+=` lines indented under
\* `if agent not in agent_stats:`: only an agent's first record counts.
AccumulateRecord_first_only(agent_stats, step_stats) ==
    [agent \in DOMAIN agent_stats \cup DOMAIN step_stats |->
        IF agent \in DOMAIN agent_stats
        THEN agent_stats[agent]
        ELSE [tp |-> Get(step_stats[agent], "tp"),
              fp |-> Get(step_stats[agent], "fp"),
              fn |-> Get(step_stats[agent], "fn")]]

\* One iteration of `for idx, record in enumerate(results)`: the inner loop
\* over step_stats.items() adds each agent's counts to its own entry of
\* agent_stats, creating the entry with zeros when the agent is new.
AccumulateRecord(agent_stats, step_stats) ==
    [agent \in DOMAIN agent_stats \cup DOMAIN step_stats |->
        IF agent \in DOMAIN step_stats
        THEN LET old == IF agent \in DOMAIN agent_stats
                        THEN agent_stats[agent]
                        ELSE [tp |-> 0, fp |-> 0, fn |-> 0]
                 stats == step_stats[agent]
             IN  [tp |-> old.tp + Get(stats, "tp"),
                  fp |-> old.fp + Get(stats, "fp"),
                  fn |-> old.fn + Get(stats, "fn")]
        ELSE agent_stats[agent]]

RECURSIVE AccumulateLoop(_, _, _)
\* The first loop of __aggregate__ from its i-th record on.
AccumulateLoop(rs, i, agent_stats) ==
    IF i > Len(rs) THEN agent_stats
    ELSE AccumulateLoop(rs, i + 1,
                        AccumulateRecord(agent_stats, rs[i].step_stats))

\* f"{agent}_{metric}"
FlatKey(agent, metric) == agent \o "_" \o metric

\* Variant of PutAgentMetrics whose precision divides by tp + fn, the
\* denominator of recall.
PutAgentMetrics_recall_denominator(matrics, agent, stats) ==
    LET tp == stats.tp
        fp == stats.fp
        fn == stats.fn
        rec == IF (tp + fn) > 0 THEN Round2(tp, tp + fn)
               ELSE IF (tp + fp + fn) = 0 THEN One
               ELSE Zero
        m1 == Put(matrics, FlatKey(agent, "precision"), rec)
        m2 == Put(m1, FlatKey(agent, "recall"), rec)
        m3 == Put(m2, FlatKey(agent, "tp"), tp)
        m4 == Put(m3, FlatKey(agent, "fp"), fp)
        m5 == Put(m4, FlatKey(agent, "fn"), fn)
    IN  Put(m5, FlatKey(agent, "support"), tp + fn)

\* The body of `for agent, stats in agent_stats.items()`: the six
\* assignments into agent_matrics for one agent.
PutAgentMetrics(matrics, agent, stats) ==
    LET tp == stats.tp
        fp == stats.fp
        fn == stats.fn
        support == tp + fn
        prec == IF (tp + fp) > 0 THEN Round2(tp, tp + fp)
                ELSE IF (tp + fp + fn) = 0 THEN One
                ELSE Zero
        rec == IF (tp + fn) > 0 THEN Round2(tp, tp + fn)
               ELSE IF (tp + fp + fn) = 0 THEN One
               ELSE Zero
        m1 == Put(matrics, FlatKey(agent, "precision"), prec)
        m2 == Put(m1, FlatKey(agent, "recall"), rec)
        m3 == Put(m2, FlatKey(agent, "tp"), tp)
        m4 == Put(m3, FlatKey(agent, "fp"), fp)
        m5 == Put(m4, FlatKey(agent, "fn"), fn)
    IN  Put(m5, FlatKey(agent, "support"), support)

RECURSIVE MetricsLoop(_, _, _)
\* The second loop of __aggregate__ over the agents still to visit.
MetricsLoop(agent_stats, todo, matrics) ==
    IF todo = {} THEN matrics
    ELSE LET agent == CHOOSE a \in todo : TRUE
         IN  MetricsLoop(agent_stats, todo \ {agent},
                         PutAgentMetrics(matrics, agent, agent_stats[agent]))

__aggregate__(rs) ==
    LET agent_stats == AccumulateLoop(rs, 1, <<>>)
    IN  MetricsLoop(agent_stats, DOMAIN agent_stats, <<>>)

(***************************************************************************)
(* Specification SpecAgg: a caller collects results, then aggregates them. *)
(***************************************************************************)

InitAgg ==
    /\ route = <<>>
    /\ reference_route = <<>>
    /\ result = NoResult
    /\ routing = NoResult
    /\ results = <<>>
    /\ agent_matrics = NoResult
    /\ step_types_to_evaluate = NoArgument
    /\ evaluator = NoEvaluator
    /\ route_steps = <<>>
    /\ reference_steps = <<>>
    /\ calls = NoCalls
    /\ matcher = NoMatcher
    /\ mcs_agent = NoAgent
    /\ activation = NoActivation

\* The caller appends one more result record to the list it will aggregate.
Collect(step_stats) ==
    /\ agent_matrics = NoResult
    /\ Len(results) < MaxResults
    /\ results' = Append(results, [step_stats |-> step_stats])
    /\ UNCHANGED <<route, reference_route, result, routing, agent_matrics>>
    /\ UNCHANGED callVars
    /\ UNCHANGED agentVars

\* RoutingAccuracyEvaluator.__aggregate__(results) returns.
Aggregate ==
    /\ agent_matrics = NoResult
    /\ agent_matrics' = __aggregate__(results)
    /\ UNCHANGED <<route, reference_route, result, routing, results>>
    /\ UNCHANGED callVars
    /\ UNCHANGED agentVars

NextAgg ==
    \/ \E step_stats \in StepStatsInputs : Collect(step_stats)
    \/ Aggregate

SpecAgg == InitAgg /\ [][NextAgg]_vars

(***************************************************************************)
(* Properties of the Aggregator, checked under SpecAgg.                    *)
(***************************************************************************)

Aggregated == agent_matrics # NoResult

\* The agents that are a key of some result's step_stats.
AgentsOf(rs) == UNION {DOMAIN rs[i].step_stats : i \in 1..Len(rs)}

RECURSIVE Total(_, _, _)
\* The sum over the results rs of the agent's count named key; a result
\* without the agent, or without that count, contributes 0.
Total(rs, agent, key) ==
    IF rs = <<>> THEN 0
    ELSE LET stats == Head(rs).step_stats
             here == IF agent \in DOMAIN stats /\ key \in DOMAIN stats[agent]
                     THEN stats[agent][key]
                     ELSE 0
         IN  here + Total(Tail(rs), agent, key)

\* C8: aggregate returns, for every agent that is a key of some result's
\* step_stats and for no other name, exactly the six flat keys
\* {agent}_precision, _recall, _tp, _fp, _fn, _support, where tp, fp and fn
\* are the sums of the agent's counts over all results and
\* support = tp + fn.
C8_AggregateKeysAndSums ==
    Aggregated =>
        LET agents == AgentsOf(results)
            suffixes == {"_precision", "_recall", "_tp", "_fp", "_fn",
                         "_support"}
        IN  /\ DOMAIN agent_matrics =
                   {a \o sfx : a \in agents, sfx \in suffixes}
            /\ Cardinality(DOMAIN agent_matrics) = 6 * Cardinality(agents)
            /\ \A a \in agents :
                   /\ agent_matrics[a \o "_tp"] = Total(results, a, "tp")
                   /\ agent_matrics[a \o "_fp"] = Total(results, a, "fp")
                   /\ agent_matrics[a \o "_fn"] = Total(results, a, "fn")
                   /\ agent_matrics[a \o "_support"] =
                          Total(results, a, "tp") + Total(results, a, "fn")

\* C8 witness: three results aggregated, agent A a true positive in two of
\* them and absent from the third, agent B present in only one.
C8_Witness ==
    /\ Aggregated
    /\ Len(results) = 3
    /\ "A" \notin DOMAIN results[2].step_stats
    /\ "B" \in DOMAIN results[2].step_stats
    /\ "B" \notin DOMAIN results[1].step_stats
    /\ "B" \notin DOMAIN results[3].step_stats
    /\ "A_tp" \in DOMAIN agent_matrics
    /\ agent_matrics["A_tp"] = 2
    /\ agent_matrics["B_support"] = 1

\* C9: for every agent of the aggregate, with its totals tp, fp, fn:
\* precision = tp/(tp+fp) if tp+fp > 0, else 1.0 if tp+fp+fn = 0, else 0.0;
\* recall = tp/(tp+fn) if tp+fn > 0, else 1.0 if tp+fp+fn = 0, else 0.0;
\* both rounded to 2 decimals.  Two results with step_stats {A: tp 1} and
\* {A: fp 1} give A_precision = 0.5, A_recall = 1.0, A_support = 1.
C9_AggregatePrecisionRecall ==
    Aggregated =>
        /\ \A a \in AgentsOf(results) :
               LET tp == agent_matrics[a \o "_tp"]
                   fp == agent_matrics[a \o "_fp"]
                   fn == agent_matrics[a \o "_fn"]
                   p == agent_matrics[a \o "_precision"]
                   r == agent_matrics[a \o "_recall"]
               IN  /\ IF tp + fp > 0 THEN IsRounded2(p, tp, tp + fp)
                      ELSE IF tp + fp + fn = 0 THEN p = One
                      ELSE p = Zero
                   /\ IF tp + fn > 0 THEN IsRounded2(r, tp, tp + fn)
                      ELSE IF tp + fp + fn = 0 THEN r = One
                      ELSE r = Zero
        /\ results = <<[step_stats |-> [A |-> [tp |-> 1, fp |-> 0, fn |-> 0]]],
                       [step_stats |-> [A |-> [tp |-> 0, fp |-> 1, fn |-> 0]]]>>
           => /\ agent_matrics["A_precision"] = 50
              /\ agent_matrics["A_recall"] = One
              /\ agent_matrics["A_support"] = 1

\* C9 witness: the aggregate of the two results {A: tp 1} and {A: fp 1}.
C9_Witness ==
    /\ Aggregated
    /\ results = <<[step_stats |-> [A |-> [tp |-> 1, fp |-> 0, fn |-> 0]]],
                   [step_stats |-> [A |-> [tp |-> 0, fp |-> 1, fn |-> 0]]]>>
    /\ agent_matrics["A_precision"] = 50

\* C10: aggregation is order-independent: aggregate returns the same
\* mapping for every permutation of the list of results.
C10_AggregateOrderIndependent ==
    Aggregated =>
        \A p \in Permutations(1..Len(results)) :
            __aggregate__([i \in 1..Len(results) |-> results[p[i]]])
                = agent_matrics

\* C10 witness: three pairwise different results for one agent have been
\* aggregated.
C10_Witness ==
    /\ Aggregated
    /\ Len(results) = 3
    /\ results[1] # results[2]
    /\ results[1] # results[3]
    /\ results[2] # results[3]
    /\ \A i \in 1..3 : "A" \in DOMAIN results[i].step_stats
    /\ agent_matrics["A_tp"] = 1
    /\ agent_matrics["A_fp"] = 1
    /\ agent_matrics["A_fn"] = 1

(***************************************************************************)
(* Specification SpecMain: the usage example.  A default evaluator is      *)
(* constructed and called on the example's two lists or on lists of some   *)
(* of their steps.                                                         *)
(***************************************************************************)

\* `route` of the usage example.
ExampleRoute ==
    <<[name |-> "A", type |-> "agent"],
      [name |-> "B", type |-> "agent"],
      [name |-> "E", type |-> "topic"],
      [name |-> "A", type |-> "agent"]>>

\* `reference_route` of the usage example.
ExampleReference ==
    <<[name |-> "A", type |-> "agent"],
      [name |-> "B", type |-> "agent"],
      [name |-> "C", type |-> "agent"],
      [name |-> "D", type |-> "agent"]>>

RECURSIVE SubLists(_)
\* The lists made of some of the steps of xs, in their order.
SubLists(xs) ==
    IF xs = <<>> THEN {<<>>}
    ELSE LET rest == SubLists(Tail(xs))
         IN  rest \cup {<<Head(xs)>> \o t : t \in rest}

NextMain ==
    \/ ConstructDefault
    \/ /\ CanCall
       /\ \E r \in SubLists(ExampleRoute),
             ref \in SubLists(ExampleReference) : Call(r, ref)

SpecMain == InitCall /\ [][NextMain]_vars

(***************************************************************************)
(* Property of the usage example, checked under SpecMain.                  *)
(***************************************************************************)

\* C22: with the default configuration (only type "agent"), scoring route
\* [A agent, B agent, E topic, A agent] against reference_route
\* [A, B, C, D] (all agent) evaluates the names [A, B, A] against
\* [A, B, C, D] and yields ordered_match 0, superset_match 0,
\* precision 0.67 and recall 0.5.
C22_UsageExample ==
    (/\ Evaluated
     /\ evaluator = __init__(<<"agent">>)
     /\ route_steps = ExampleRoute
     /\ reference_steps = ExampleReference) =>
        /\ result.route_evaluated = <<"A", "B", "A">>
        /\ result.reference_route_evaluated = <<"A", "B", "C", "D">>
        /\ result.ordered_match = 0
        /\ result.superset_match = 0
        /\ result.precision = 67
        /\ result.recall = 50

\* C22 witness: the default evaluator has scored the example's lists.
C22_Witness ==
    /\ Evaluated
    /\ step_types_to_evaluate = DefaultStepTypes
    /\ route_steps = ExampleRoute
    /\ reference_steps = ExampleReference
    /\ Len(result.route_evaluated) = 3

(***************************************************************************)
(* Specification SpecConc: callers run __call__ on one evaluator and on    *)
(* the same two argument lists, statement by statement and interleaved,    *)
(* while the returned results are aggregated.                              *)
(***************************************************************************)

\* The callers, in the order in which their results are collected.
CallerOrder == <<"c1", "c2">>

Callers == SetOf(CallerOrder)

\* The activation of a caller that is not inside __call__.
Idle ==
    [pc |-> "idle",
     route_to_evaluate |-> <<>>,
     reference_route_to_evaluate |-> <<>>,
     ret |-> NoResult]

\* Variant of FilterRoute that filters the argument list in place
\* (route[:] = [step for step in route if ...]) before projecting the names.
FilterRoute_in_place(self, steps, frame) ==
    LET Keep(step) == InList(step.type, self._step_types_to_evaluate)
        kept == SelectSeq(steps, Keep)
    IN  [steps |-> kept,
         frame |-> [frame EXCEPT
                       !.pc = "filter_reference",
                       !.route_to_evaluate =
                           [i \in 1..Len(kept) |-> kept[i].name]]]

\* The first statement of __call__: the comprehension reads `route` and
\* self._step_types_to_evaluate and binds the local route_to_evaluate to a
\* new list.  `steps` is the argument list after the statement.
FilterRoute(self, steps, frame) ==
    [steps |-> steps,
     frame |-> [frame EXCEPT
                   !.pc = "filter_reference",
                   !.route_to_evaluate =
                       StepNamesOfTypes(steps, self._step_types_to_evaluate)]]

\* The second statement of __call__, on `reference_route`.
FilterReference(self, steps, frame) ==
    [steps |-> steps,
     frame |-> [frame EXCEPT
                   !.pc = "evaluate",
                   !.reference_route_to_evaluate =
                       StepNamesOfTypes(steps, self._step_types_to_evaluate)]]

\* The last statements of __call__: result = self._evaluate(...) on the two
\* locals, and return result.
EvaluateFrame(frame) ==
    [frame EXCEPT
        !.pc = "returned",
        !.ret = _evaluate(frame.route_to_evaluate,
                          frame.reference_route_to_evaluate)]

InitConc ==
    /\ route = <<>>
    /\ reference_route = <<>>
    /\ result = NoResult
    /\ routing = NoResult
    /\ results = <<>>
    /\ agent_matrics = NoResult
    /\ step_types_to_evaluate \in TypeLists
    /\ evaluator = __init__(step_types_to_evaluate)
    /\ route_steps \in SeqsUpTo(Steps, MaxConcSteps)
    /\ reference_steps \in SeqsUpTo(Steps, 1)
    /\ calls = [c \in Callers |-> Idle]
    /\ matcher = NoMatcher
    /\ mcs_agent = NoAgent
    /\ activation = NoActivation

\* Caller c calls evaluator(route=route_steps, reference_route=reference_steps).
Enter(c) ==
    /\ calls[c].pc = "idle"
    /\ calls' = [calls EXCEPT ![c].pc = "filter_route"]
    /\ UNCHANGED <<matcher, route, reference_route, result, routing, results,
                   agent_matrics, step_types_to_evaluate, evaluator,
                   route_steps, reference_steps>>
    /\ UNCHANGED agentVars

DoFilterRoute(c) ==
    /\ calls[c].pc = "filter_route"
    /\ LET out == FilterRoute(evaluator, route_steps, calls[c])
       IN  /\ route_steps' = out.steps
           /\ calls' = [calls EXCEPT ![c] = out.frame]
    /\ UNCHANGED <<matcher, route, reference_route, result, routing, results,
                   agent_matrics, step_types_to_evaluate, evaluator,
                   reference_steps>>
    /\ UNCHANGED agentVars

DoFilterReference(c) ==
    /\ calls[c].pc = "filter_reference"
    /\ LET out == FilterReference(evaluator, reference_steps, calls[c])
       IN  /\ reference_steps' = out.steps
           /\ calls' = [calls EXCEPT ![c] = out.frame]
    /\ UNCHANGED <<matcher, route, reference_route, result, routing, results,
                   agent_matrics, step_types_to_evaluate, evaluator,
                   route_steps>>
    /\ UNCHANGED agentVars

DoEvaluate(c) ==
    /\ calls[c].pc = "evaluate"
    /\ calls' = [calls EXCEPT ![c] = EvaluateFrame(calls[c])]
    /\ UNCHANGED <<matcher, route, reference_route, result, routing, results,
                   agent_matrics, step_types_to_evaluate, evaluator,
                   route_steps, reference_steps>>
    /\ UNCHANGED agentVars

\* Caller c drops the result it got; it may call again.
Again(c) ==
    /\ calls[c].pc = "returned"
    /\ calls' = [calls EXCEPT ![c] = Idle]
    /\ UNCHANGED <<matcher, route, reference_route, result, routing, results,
                   agent_matrics, step_types_to_evaluate, evaluator,
                   route_steps, reference_steps>>
    /\ UNCHANGED agentVars

\* The results returned so far, in caller order.
ReturnedResults ==
    LET Returned(c) == calls[c].pc = "returned"
        done == SelectSeq(CallerOrder, Returned)
    IN  [i \in 1..Len(done) |-> calls[done[i]].ret]

\* evaluator.__aggregate__(results) on the results returned so far, while
\* other calls are in progress.
AggregateReturned ==
    /\ ReturnedResults # <<>>
    /\ results' = ReturnedResults
    /\ agent_matrics' = __aggregate__(ReturnedResults)
    /\ UNCHANGED <<route, reference_route, result, routing, callVars>>
    /\ UNCHANGED agentVars

NextConc ==
    \/ \E c \in Callers :
           \/ Enter(c)
           \/ DoFilterRoute(c)
           \/ DoFilterReference(c)
           \/ DoEvaluate(c)
           \/ Again(c)
    \/ AggregateReturned

SpecConc == InitConc /\ [][NextConc]_vars

(***************************************************************************)
(* Property of concurrent calls, checked under SpecConc.                   *)
(***************************************************************************)

\* Every call that has returned holds the result of the call run alone on
\* the same arguments, and any two returned results are identical.
ReturnsAsAlone ==
    /\ \A c \in Callers :
           calls[c].pc = "returned" =>
               calls[c].ret = __call__(evaluator, route_steps, reference_steps)
    /\ \A c, d \in Callers :
           (calls[c].pc = "returned" /\ calls[d].pc = "returned") =>
               calls[c].ret = calls[d].ret

\* No step changes the argument lists or the evaluator's
\* _step_types_to_evaluate.
LeavesInputsAlone ==
    /\ route_steps' = route_steps
    /\ reference_steps' = reference_steps
    /\ evaluator' = evaluator

\* C13: score keeps no state: in any interleaving of score calls and
\* aggregate calls on one evaluator, each score call returns the same
\* result as when it is run alone on the same arguments, repeating a call
\* returns an identical result, and no call changes its input sequences
\* or the evaluator's step_types_to_evaluate.
C13_ScoreKeepsNoState == []ReturnsAsAlone /\ [][LeavesInputsAlone]_vars

\* C13 witness: one caller has returned and its result has been
\* aggregated while the other caller is in the middle of its call, on a
\* route that holds an agent step and a topic step.
C13_Witness ==
    /\ calls # NoCalls
    /\ calls["c1"].pc = "returned"
    /\ calls["c2"].pc = "filter_reference"
    /\ Aggregated
    /\ Len(route_steps) = 2
    /\ route_steps[1].type # route_steps[2].type
    /\ Len(calls["c1"].ret.route_evaluated) = 1

(***************************************************************************)
(* Specification SpecScan: the greedy loops of _superset_match, _precision *)
(* and _recall, followed one iteration of the inner scan at a time.        *)
(***************************************************************************)

\* The methods that hold a greedy loop.
ScanMethods == {"_superset_match", "_precision", "_recall"}

\* _subset_match runs the loop of _superset_match on swapped arguments:
\* return self._superset_match(reference_route, route).
LoopMethods == ScanMethods \cup {"_subset_match"}

\* The sequence whose items the outer loop takes one by one, and the
\* sequence the inner loop scans: _precision and _subset_match take the
\* items of route and scan reference_route, the other two the other way
\* round.
Needles(method) ==
    IF method \in {"_precision", "_subset_match"}
    THEN route ELSE reference_route

Haystack(method) ==
    IF method \in {"_precision", "_subset_match"}
    THEN reference_route ELSE route

\* _superset_match (and so _subset_match) keeps no `matches` counter and
\* returns 0 at the first needle without a match.
KeepsCounter(method) == method \in {"_precision", "_recall"}

\* Variant of Skips that never skips: the scan without its
\* `if idx in matched: continue`.
Skips_never(idx, matched) == FALSE

\* `if idx in matched_..._indices: continue`
Skips(idx, matched) == idx \in matched

\* The locals when the outer loop is about to take its first item.  `pairs`
\* records, for each index added to `matched`, the needle position that
\* consumed it; the code keeps no such record.
EnterLoop(method) ==
    [method |-> method, pc |-> "outer", i |-> 1, idx |-> 0,
     matched |-> {}, matches |-> 0, pairs |-> {}, ret |-> NoResult,
     returns |-> <<>>]

\* The method has returned ret.
Returned(m, ret) == [m EXCEPT !.pc = "done", !.ret = ret]

\* Variant of AfterLoop whose _recall divides by len(route).
AfterLoop_recall_by_route(m) ==
    IF ~KeepsCounter(m.method) THEN 1
    ELSE Round2(m.matches, Len(route))

\* The value returned after the outer loop has ended.
AfterLoop(m) ==
    IF ~KeepsCounter(m.method) THEN 1
    ELSE IF m.method = "_precision" THEN Round2(m.matches, Len(route))
    ELSE Round2(m.matches, Len(reference_route))

\* The locals after the entry of a method: the early returns of _precision
\* and _recall, or the initialisation before the loop.
MethodEntry(method) ==
    IF method = "_precision" /\ route = <<>>
    THEN Returned(EnterLoop(method), Zero)
    ELSE IF method = "_recall" /\ reference_route = <<>>
    THEN Returned(EnterLoop(method), IF route = <<>> THEN One ELSE Zero)
    ELSE EnterLoop(method)

InitScan ==
    /\ route \in SeqsUpTo(StepNames, MaxScanLen)
    /\ reference_route \in SeqsUpTo(StepNames, MaxScanLen)
    /\ result = NoResult
    /\ routing = NoResult
    /\ results = <<>>
    /\ agent_matrics = NoResult
    /\ step_types_to_evaluate = NoArgument
    /\ evaluator = NoEvaluator
    /\ route_steps = <<>>
    /\ reference_steps = <<>>
    /\ calls = NoCalls
    /\ matcher = NoMatcher
    /\ mcs_agent = NoAgent
    /\ activation = NoActivation

\* The method is entered: the early returns of _precision and _recall, or
\* the initialisation of the locals.
EnterMethod(method) ==
    /\ matcher = NoMatcher
    /\ mcs_agent = NoAgent
    /\ activation = NoActivation
    /\ matcher' = MethodEntry(method)
    /\ UNCHANGED <<route, reference_route, result, routing, results,
                   agent_matrics, step_types_to_evaluate, evaluator,
                   route_steps, reference_steps, calls>>
    /\ UNCHANGED agentVars

\* The outer `for` takes its next item and the inner scan starts at the
\* first index, or the outer loop has ended and the method returns.
OuterStep ==
    /\ matcher.pc = "outer"
    /\ matcher' =
           IF matcher.i > Len(Needles(matcher.method))
           THEN Returned(matcher, AfterLoop(matcher))
           ELSE [matcher EXCEPT !.pc = "inner", !.idx = 1]
    /\ UNCHANGED <<route, reference_route, result, routing, results,
                   agent_matrics, step_types_to_evaluate, evaluator,
                   route_steps, reference_steps, calls>>
    /\ UNCHANGED agentVars

\* One iteration of the inner `for idx, item in enumerate(...)`, or its end
\* without a break: _superset_match then returns 0, the other two go on.
InnerStep ==
    /\ matcher.pc = "inner"
    /\ LET needles == Needles(matcher.method)
           haystack == Haystack(matcher.method)
           i == matcher.i
           idx == matcher.idx
       IN  matcher' =
               IF idx > Len(haystack)
               THEN (IF ~KeepsCounter(matcher.method)
                     THEN Returned(matcher, 0)
                     ELSE [matcher EXCEPT !.pc = "outer", !.i = i + 1])
               ELSE IF Skips(idx, matcher.matched)
               THEN [matcher EXCEPT !.idx = idx + 1]
               ELSE IF haystack[idx] = needles[i]
               THEN [matcher EXCEPT
                        !.pc = "outer",
                        !.i = i + 1,
                        !.matched = @ \cup {idx},
                        !.matches = IF KeepsCounter(matcher.method)
                                    THEN @ + 1 ELSE @,
                        !.pairs = @ \cup {<<i, idx>>}]
               ELSE [matcher EXCEPT !.idx = idx + 1]
    /\ UNCHANGED <<route, reference_route, result, routing, results,
                   agent_matrics, step_types_to_evaluate, evaluator,
                   route_steps, reference_steps, calls>>
    /\ UNCHANGED agentVars

NextScan ==
    \/ \E method \in ScanMethods : EnterMethod(method)
    \/ OuterStep
    \/ InnerStep

SpecScan == InitScan /\ [][NextScan]_vars

(***************************************************************************)
(* Properties of the greedy loops, checked under SpecScan.                 *)
(***************************************************************************)

Scanning == matcher # NoMatcher

\* C23: at every step of the greedy matcher (in superset_match, precision
\* and recall) the matching built so far is one-to-one: each needle element
\* is paired with at most one haystack index, no haystack index is consumed
\* twice, the index consumed for a needle element is the lowest index not
\* consumed before that holds an equal value, and the match counter (of
\* precision and recall, which keep one) equals the number of consumed
\* indices.
C23_GreedyMatchingIsOneToOne ==
    Scanning =>
        LET needles == Needles(matcher.method)
            haystack == Haystack(matcher.method)
            pairs == matcher.pairs
        IN  /\ \A p, q \in pairs : (p[1] = q[1]) <=> (p[2] = q[2])
            /\ {p[2] : p \in pairs} = matcher.matched
            /\ \A p \in pairs :
                   /\ p[1] \in 1..Len(needles)
                   /\ p[2] \in 1..Len(haystack)
                   /\ haystack[p[2]] = needles[p[1]]
                   /\ \A j \in 1..(p[2] - 1) :
                          haystack[j] = needles[p[1]] =>
                              \E q \in pairs : q[2] = j /\ q[1] < p[1]
            /\ KeepsCounter(matcher.method) =>
                   matcher.matches = Cardinality(matcher.matched)

\* C23 witness: a scan is in progress after two needle elements consumed an
\* index each, the second one after skipping over a consumed index.
C23_Witness ==
    /\ Scanning
    /\ matcher.pc = "inner"
    /\ matcher.method = "_recall"
    /\ matcher.matches = 2
    /\ <<1, 1>> \in matcher.pairs
    /\ <<2, 3>> \in matcher.pairs

\* The value a followed method returns is the value of its operator.
ScanReturnsOperatorValue ==
    (Scanning /\ matcher.pc = "done") =>
        matcher.ret =
            IF matcher.method = "_superset_match"
            THEN _superset_match(route, reference_route)
            ELSE IF matcher.method = "_precision"
            THEN _precision(route, reference_route)
            ELSE _recall(route, reference_route)

(***************************************************************************)
(* Specification SpecLong: the four methods with a greedy loop, called one *)
(* after the other as _evaluate calls them and followed one iteration of   *)
(* the outer loop at a time, on short sequences and on sequences of more   *)
(* than 200 elements, where round(x, 2) reaches 1.0 for x < 1.             *)
(***************************************************************************)

\* The methods in the order in which _evaluate calls them.
CallOrder == <<"_superset_match", "_subset_match", "_precision", "_recall">>

\* LongLen times "A", followed by at most one more element.
LongRoutes ==
    {[i \in 1..LongLen |-> "A"] \o t : t \in SeqsUpTo(StepNames, 1)}

LongInputs == SeqsUpTo(StepNames, MaxShortLen) \cup LongRoutes

InitLong ==
    /\ route \in LongInputs
    /\ reference_route \in LongInputs
    /\ result = NoResult
    /\ routing = NoResult
    /\ results = <<>>
    /\ agent_matrics = NoResult
    /\ step_types_to_evaluate = NoArgument
    /\ evaluator = NoEvaluator
    /\ route_steps = <<>>
    /\ reference_steps = <<>>
    /\ calls = NoCalls
    /\ matcher = NoMatcher
    /\ mcs_agent = NoAgent
    /\ activation = NoActivation

\* _evaluate calls the first method.
CallFirst ==
    /\ matcher = NoMatcher
    /\ mcs_agent = NoAgent
    /\ activation = NoActivation
    /\ matcher' = MethodEntry(CallOrder[1])
    /\ UNCHANGED <<route, reference_route, result, routing, results,
                   agent_matrics, step_types_to_evaluate, evaluator,
                   route_steps, reference_steps, calls>>
    /\ UNCHANGED agentVars

\* One iteration of the outer loop with its whole inner scan, or the end
\* of the outer loop.
Iterate ==
    /\ matcher.pc = "outer"
    /\ LET needles == Needles(matcher.method)
           haystack == Haystack(matcher.method)
           i == matcher.i
       IN  matcher' =
               IF i > Len(needles)
               THEN Returned(matcher, AfterLoop(matcher))
               ELSE LET idx == FirstUnmatched(needles[i], haystack,
                                              matcher.matched)
                    IN  IF idx = 0
                        THEN (IF KeepsCounter(matcher.method)
                              THEN [matcher EXCEPT !.i = i + 1]
                              ELSE Returned(matcher, 0))
                        ELSE [matcher EXCEPT
                                 !.i = i + 1,
                                 !.matched = @ \cup {idx},
                                 !.matches = IF KeepsCounter(matcher.method)
                                             THEN @ + 1 ELSE @]
    /\ UNCHANGED <<route, reference_route, result, routing, results,
                   agent_matrics, step_types_to_evaluate, evaluator,
                   route_steps, reference_steps, calls>>
    /\ UNCHANGED agentVars

\* A method has returned: _evaluate keeps its value and calls the next
\* method, or has called them all.
CallNext ==
    /\ matcher.pc = "done"
    /\ LET returns == Put(matcher.returns, matcher.method, matcher.ret)
           k == CHOOSE j \in 1..Len(CallOrder) : CallOrder[j] = matcher.method
       IN  matcher' =
               IF k = Len(CallOrder)
               THEN [matcher EXCEPT !.pc = "scored", !.returns = returns]
               ELSE [MethodEntry(CallOrder[k + 1]) EXCEPT !.returns = returns]
    /\ UNCHANGED <<route, reference_route, result, routing, results,
                   agent_matrics, step_types_to_evaluate, evaluator,
                   route_steps, reference_steps, calls>>
    /\ UNCHANGED agentVars

NextLong == CallFirst \/ Iterate \/ CallNext

SpecLong == InitLong /\ [][NextLong]_vars

(***************************************************************************)
(* Property of predicates and scores, checked under SpecLong.              *)
(***************************************************************************)

\* The four methods have returned.
Scored == matcher.pc = "scored"

\* C27 as stated: for every route and every non-empty reference_route,
\* superset_match = 1 if and only if recall = 1.0; for every non-empty
\* route and every reference_route, subset_match = 1 if and only if
\* precision = 1.0.
C27_PredicatesIffFullScores ==
    Scored =>
        LET score == matcher.returns
        IN  /\ reference_route # <<>> =>
                   (score._superset_match = 1 <=> score._recall = 100)
            /\ route # <<>> =>
                   (score._subset_match = 1 <=> score._precision = 100)

\* C27, amended: for a non-empty reference_route superset_match = 1 implies
\* recall = 1.0, and for a non-empty route subset_match = 1 implies
\* precision = 1.0; the converses hold when the dividing sequence has fewer
\* than 200 elements.  With more than 200 "A" scored against the same "A"
\* followed by "B", superset_match is 0 while recall is 1.0, and the other
\* way round subset_match is 0 while precision is 1.0.
C27_PredicatesImplyFullScores ==
    Scored =>
        LET score == matcher.returns
        IN  /\ reference_route # <<>> =>
                   /\ score._superset_match = 1 => score._recall = 100
                   /\ (score._recall = 100 /\ Len(reference_route) < 200) =>
                          score._superset_match = 1
            /\ route # <<>> =>
                   /\ score._subset_match = 1 => score._precision = 100
                   /\ (score._precision = 100 /\ Len(route) < 200) =>
                          score._subset_match = 1
            /\ (Len(route) > 200 /\ reference_route = route \o <<"B">>) =>
                   (score._superset_match = 0 /\ score._recall = 100)
            /\ (Len(reference_route) > 200
                    /\ route = reference_route \o <<"B">>) =>
                   (score._subset_match = 0 /\ score._precision = 100)

\* C27 witness: a long run of "A" has been scored against the same run
\* followed by "B"; the reference element "B" is unmatched and recall is 1.0.
C27_Witness ==
    /\ Scored
    /\ Len(route) = LongLen
    /\ reference_route = route \o <<"B">>
    /\ matcher.returns._superset_match = 0
    /\ matcher.returns._recall = 100

\* On short sequences the followed methods return the values of their
\* operators.
ShortScoresAreOperatorValues ==
    (Scored /\ Len(route) < 10 /\ Len(reference_route) < 10) =>
        /\ matcher.returns._superset_match =
               _superset_match(route, reference_route)
        /\ matcher.returns._subset_match =
               _subset_match(route, reference_route)
        /\ matcher.returns._precision = _precision(route, reference_route)
        /\ matcher.returns._recall = _recall(route, reference_route)

(***************************************************************************)
(* Specification SpecPipe: routes are scored, the results are collected    *)
(* and handed to __aggregate__.                                            *)
(***************************************************************************)

\* The routes and reference routes scored: at most two agent names each.
ScoredRoutes == SeqsUpTo(AggAgents, 2)

\* More results may be scored and collected.
CanScore == agent_matrics = NoResult /\ Len(results) < MaxScored

\* result = evaluator._evaluate(r, ref); results.append(result)
Score(r, ref) ==
    /\ CanScore
    /\ route' = r
    /\ reference_route' = ref
    /\ result' = _evaluate(r, ref)
    /\ results' = Append(results, _evaluate(r, ref))
    /\ UNCHANGED <<routing, agent_matrics>>
    /\ UNCHANGED callVars
    /\ UNCHANGED agentVars

NextPipe ==
    \/ /\ CanScore
       /\ \E r \in ScoredRoutes, ref \in ScoredRoutes : Score(r, ref)
    \/ Aggregate

SpecPipe == InitAgg /\ [][NextPipe]_vars

(***************************************************************************)
(* Property of the aggregate of scored results, checked under SpecPipe.    *)
(***************************************************************************)

\* C28: when aggregate is fed n results that were all produced by score,
\* every agent in the output has 1 <= tp + fp + fn <= n, so the
\* "tp + fp + fn = 0 gives 1.0" fallback of precision and recall is never
\* taken (precision is 0.0 when tp + fp = 0, recall is 0.0 when
\* tp + fn = 0), and each agent's precision and recall lie in [0, 1] with
\* support <= n.
C28_ScoredAggregateHasNoEmptyAgent ==
    Aggregated =>
        LET n == Len(results)
        IN  \A a \in AgentsOf(results) :
                LET tp == agent_matrics[a \o "_tp"]
                    fp == agent_matrics[a \o "_fp"]
                    fn == agent_matrics[a \o "_fn"]
                    p == agent_matrics[a \o "_precision"]
                    r == agent_matrics[a \o "_recall"]
                IN  /\ 1 <= tp + fp + fn
                    /\ tp + fp + fn <= n
                    /\ tp + fp = 0 => p = Zero
                    /\ tp + fn = 0 => r = Zero
                    /\ Zero <= p /\ p <= One
                    /\ Zero <= r /\ r <= One
                    /\ agent_matrics[a \o "_support"] <= n

\* C28 witness: two scored results have been aggregated; agent A was a
\* true positive in one and a false positive in the other, agent B a false
\* negative once, so B's precision takes the 0.0 branch.
C28_Witness ==
    /\ Aggregated
    /\ Len(results) = 2
    /\ \A i \in 1..2 : results[i] = _evaluate(results[i].route_evaluated,
                                             results[i].reference_route_evaluated)
    /\ "A_tp" \in DOMAIN agent_matrics
    /\ "B_fn" \in DOMAIN agent_matrics
    /\ agent_matrics["A_tp"] = 1
    /\ agent_matrics["A_fp"] = 1
    /\ agent_matrics["B_fn"] = 1
    /\ agent_matrics["B_tp"] = 0
    /\ agent_matrics["B_fp"] = 0
    /\ agent_matrics["B_precision"] = Zero

(***************************************************************************)
(* MCSAgent: the Direct Line client (agents/mcs_agent/mcs_agent_async.py). *)
(***************************************************************************)

\* Python's None, kept apart from every string a server sends.
None == "None"

\* A local that no statement has bound yet.
Unbound == [unbound |-> TRUE]

\* The value of the environment variable MCS_AGENT_KEY.
AgentKey == "MCS_AGENT_KEY"

\* The JSON bodies of successful start-conversation responses: a
\* conversation id with the token issued for it.
StartResponses ==
    {[conversationId |-> "c1", token |-> "t1"],
     [conversationId |-> "c2", token |-> "t2"]}

\* The values of response_json.get("watermark").
Watermarks == {None, "1", "2"}

\* The activities a polled response may list: a bot message with text, a
\* bot message with speak only, a bot message with neither, a user message
\* and a bot activity that is no message.
ActivityChoices ==
    {[from |-> "bot", type |-> "message", text |-> "hi", speak |-> None],
     [from |-> "bot", type |-> "message", text |-> None, speak |-> "hi"],
     [from |-> "bot", type |-> "message", text |-> None, speak |-> None],
     [from |-> "user", type |-> "message", text |-> "hi", speak |-> None],
     [from |-> "bot", type |-> "typing", text |-> "hi", speak |-> None]}

\* The JSON bodies of successful polls.
PollResponses ==
    [watermark : Watermarks,
     activities : SeqsUpTo(ActivityChoices, MaxActivities)]

\* bool(x) for x a str or None.
Truthy(x) == x # None /\ x # ""

\* a or b, for a and b a str or None.
Or(a, b) == IF Truthy(a) THEN a ELSE b

\* MCSAgent(timeout=timeout, poll_interval=poll_interval): the other
\* parameters take their defaults.
MCSAgent_init(timeout, poll_interval) ==
    [_user_id |-> "default_user",
     _timeout |-> timeout,
     _poll_interval |-> poll_interval,
     _save_to |-> None,
     _agent_key |-> AgentKey,
     _conversation_id |-> None,
     _token |-> None,
     _watermark |-> None,
     _full_response |-> <<>>]

\* The Authorization header _start_conversation builds.
StartAuthorization(self) ==
    IF self._token = None
    THEN "Bearer " \o self._agent_key
    ELSE "Bearer " \o self._token

\* Variant of AfterStart without the two `is None` tests: every response
\* overwrites the conversation id and the token.
AfterStart_overwrite(self, response_json) ==
    [self EXCEPT !._conversation_id = response_json.conversationId,
                 !._token = response_json.token]

\* self after _start_conversation has read a successful response.
AfterStart(self, response_json) ==
    [self EXCEPT
        !._conversation_id =
            IF @ = None THEN response_json.conversationId ELSE @,
        !._token = IF @ = None THEN response_json.token ELSE @]

\* The list comprehension of _poll_for_response: the text (or speak) of the
\* bot's messages that have one.
BotResponse(response_json) ==
    LET Kept(activity) ==
            /\ activity.from = "bot"
            /\ activity.type = "message"
            /\ Truthy(Or(activity.text, activity.speak))
        kept == SelectSeq(response_json.activities, Kept)
    IN  [i \in 1..Len(kept) |-> [data |-> Or(kept[i].text, kept[i].speak)]]

\* The condition of the `break` of the polling loop.
Breaks(self, new_watermark, bot_response) ==
    /\ Truthy(self._watermark)
    /\ Truthy(new_watermark)
    /\ self._watermark = new_watermark
    /\ bot_response # <<>>

\* The locals when get_response has been called and _start_conversation has
\* built its headers.
EnterGetResponse(self) ==
    [pc |-> "start",
     authorization |-> StartAuthorization(self),
     url_watermark |-> None,
     elapsed |-> 0,
     response_json |-> Unbound,
     bot_response |-> <<>>,
     polls |-> 0,
     broke |-> FALSE,
     ret |-> NoResult]

(***************************************************************************)
(* Specification SpecAgent: an MCSAgent is constructed and get_response is *)
(* called on it again and again, one call after the other; the server      *)
(* answers or fails, and the clock advances during polls and sleeps.       *)
(***************************************************************************)

InitAgent ==
    /\ route = <<>>
    /\ reference_route = <<>>
    /\ result = NoResult
    /\ routing = NoResult
    /\ results = <<>>
    /\ agent_matrics = NoResult
    /\ step_types_to_evaluate = NoArgument
    /\ evaluator = NoEvaluator
    /\ route_steps = <<>>
    /\ reference_steps = <<>>
    /\ calls = NoCalls
    /\ matcher = NoMatcher
    /\ mcs_agent = NoAgent
    /\ activation = NoActivation

scorerVars ==
    <<route, reference_route, result, routing, results, agent_matrics,
      callVars>>

\* agent = MCSAgent(timeout=..., poll_interval=...)
ConstructAgent(timeout, poll_interval) ==
    /\ mcs_agent = NoAgent
    /\ mcs_agent' = MCSAgent_init(timeout, poll_interval)
    /\ UNCHANGED <<activation, scorerVars>>

\* The exception exc leaves get_response.
Raised(locals, exc) == [locals EXCEPT !.pc = "raised", !.ret = exc]

\* await agent.get_response(query) is called, once no call is in progress;
\* _start_conversation builds its headers.
GetResponse ==
    /\ mcs_agent # NoAgent
    /\ activation.pc \in {"none", "returned", "raised"}
    /\ activation' = EnterGetResponse(mcs_agent)
    /\ UNCHANGED <<mcs_agent, scorerVars>>

\* The start-conversation POST succeeds with the body response_json.
StartSucceeds(response_json) ==
    /\ activation.pc = "start"
    /\ mcs_agent' = AfterStart(mcs_agent, response_json)
    /\ activation' =
           [activation EXCEPT
               !.pc = "send",
               !.authorization = "Bearer " \o mcs_agent'._token]
    /\ UNCHANGED scorerVars

\* response.raise_for_status() raises in _start_conversation.
StartFails ==
    /\ activation.pc = "start"
    /\ activation' = Raised(activation, "ClientResponseError")
    /\ UNCHANGED <<mcs_agent, scorerVars>>

\* The activity POST of _send_query succeeds; _poll_for_response is entered:
\* it builds its URL from the stored watermark, reads the clock and sets
\* bot_response = [].
SendSucceeds ==
    /\ activation.pc = "send"
    /\ activation' =
           [activation EXCEPT
               !.pc = "loop",
               !.url_watermark = mcs_agent._watermark,
               !.elapsed = 0,
               !.bot_response = <<>>]
    /\ UNCHANGED <<mcs_agent, scorerVars>>

\* response.raise_for_status() raises in _send_query.
SendFails ==
    /\ activation.pc = "send"
    /\ activation' = Raised(activation, "ClientResponseError")
    /\ UNCHANGED <<mcs_agent, scorerVars>>

\* while time.time() - start_time < self._timeout
LoopTest ==
    /\ activation.pc = "loop"
    /\ activation' =
           [activation EXCEPT
               !.pc = IF activation.elapsed < mcs_agent._timeout
                      THEN "get" ELSE "build"]
    /\ UNCHANGED <<mcs_agent, scorerVars>>

\* The GET of one poll succeeds with the body response_json after `ticks`
\* clock ticks; the loop breaks, or stores the watermark and goes to sleep.
PollSucceeds(response_json, ticks) ==
    /\ activation.pc = "get"
    /\ LET bot_response == BotResponse(response_json)
           new_watermark == response_json.watermark
           breaks == Breaks(mcs_agent, new_watermark, bot_response)
       IN  /\ activation' =
                  [activation EXCEPT
                      !.pc = IF breaks THEN "build" ELSE "sleep",
                      !.elapsed = @ + ticks,
                      !.response_json = response_json,
                      !.bot_response = bot_response,
                      !.polls = @ + 1,
                      !.broke = breaks]
           /\ mcs_agent' =
                  IF breaks THEN mcs_agent
                  ELSE [mcs_agent EXCEPT !._watermark = new_watermark]
    /\ UNCHANGED scorerVars

\* response.raise_for_status() raises in _poll_for_response.
PollFails ==
    /\ activation.pc = "get"
    /\ activation' = Raised(activation, "ClientResponseError")
    /\ UNCHANGED <<mcs_agent, scorerVars>>

\* await asyncio.sleep(self._poll_interval)
Sleep ==
    /\ activation.pc = "sleep"
    /\ activation' =
           [activation EXCEPT
               !.pc = "loop",
               !.elapsed = @ + mcs_agent._poll_interval]
    /\ UNCHANGED <<mcs_agent, scorerVars>>

\* After the loop: _poll_for_response builds `result`, which reads
\* response_json, and get_response builds agent_response, saves the full
\* response when save_to is set, and returns.
BuildResult ==
    /\ activation.pc = "build"
    /\ IF activation.response_json = Unbound
       THEN /\ activation' = Raised(activation, "UnboundLocalError")
            /\ UNCHANGED mcs_agent
       ELSE /\ activation' =
                   [activation EXCEPT
                       !.pc = "returned",
                       !.ret =
                           [user_id |-> mcs_agent._user_id,
                            conversation_id |-> mcs_agent._conversation_id,
                            response |-> activation.bot_response,
                            processing_time |-> activation.elapsed]]
            /\ mcs_agent' =
                   IF mcs_agent._save_to = None THEN mcs_agent
                   ELSE [mcs_agent EXCEPT
                            !._full_response =
                                Append(@, activation.response_json)]
    /\ UNCHANGED scorerVars

NextAgent ==
    \/ \E timeout \in 0..MaxTimeout, poll_interval \in 1..MaxPollInterval :
           ConstructAgent(timeout, poll_interval)
    \/ GetResponse
    \/ \E response_json \in StartResponses : StartSucceeds(response_json)
    \/ StartFails
    \/ SendSucceeds
    \/ SendFails
    \/ LoopTest
    \/ /\ activation.pc = "get"
       /\ \E response_json \in PollResponses, ticks \in {0, 1} :
              PollSucceeds(response_json, ticks)
    \/ PollFails
    \/ Sleep
    \/ BuildResult

SpecAgent == InitAgent /\ [][NextAgent]_vars

(***************************************************************************)
(* Properties of the MCSAgent, checked under SpecAgent.                    *)
(***************************************************************************)

\* The texts of the bot messages of a polled response, a message's text
\* being its `text` or else its `speak`.
BotTexts(response_json) ==
    LET acts == response_json.activities
        HasText(i) ==
            /\ acts[i].from = "bot"
            /\ acts[i].type = "message"
            /\ (acts[i].text # None \/ acts[i].speak # None)
        Text(i) == IF acts[i].text # None THEN acts[i].text ELSE acts[i].speak
        RECURSIVE From(_)
        From(i) ==
            IF i > Len(acts) THEN <<>>
            ELSE (IF HasText(i) THEN <<Text(i)>> ELSE <<>>) \o From(i + 1)
    IN  From(1)

\* A poll has just been answered.
PollAnswered == activation.pc = "get" /\ activation'.pc \in {"build", "sleep"}

\* The steps of the polling loop as C29 describes them.
PollsAsDescribed ==
    /\ (PollAnswered /\ activation'.pc = "build") =>
           LET answer == activation'.response_json
           IN  /\ answer.watermark # None
               /\ answer.watermark = mcs_agent._watermark
               /\ BotTexts(answer) # <<>>
    /\ (PollAnswered /\ activation'.pc = "sleep") =>
           mcs_agent'._watermark = activation'.response_json.watermark
    /\ activation.pc = "sleep" =>
           /\ activation'.pc = "loop"
           /\ activation'.elapsed =
                  activation.elapsed + mcs_agent._poll_interval
    /\ activation.pc = "loop" =>
           activation'.pc = IF activation.elapsed < mcs_agent._timeout
                            THEN "get" ELSE "build"
    /\ activation.pc = "build" =>
           /\ activation'.pc = "returned"
           /\ Len(activation'.ret.response) =
                  Len(BotTexts(activation.response_json))
           /\ \A i \in 1..Len(activation'.ret.response) :
                  activation'.ret.response[i].data =
                      BotTexts(activation.response_json)[i]

\* A call whose stored watermark was unset at its entry has not left the
\* loop by a break on its first poll.
NoBreakOnFirstUnsetPoll ==
    (activation.pc # "none" /\ activation.broke /\ activation.polls = 1) =>
        activation.url_watermark # None

\* C29: _poll_for_response leaves its polling loop before the timeout only
\* on a poll whose returned watermark is non-empty and equal to the stored
\* watermark and whose response has at least one bot message with text;
\* otherwise it stores the new watermark, waits poll_interval and polls
\* again; it always returns once the timeout has elapsed, reporting the bot
\* messages of the last poll only; an agent whose stored watermark is unset
\* never returns on its first poll.
C29_PollingLoop == []NoBreakOnFirstUnsetPoll /\ [][PollsAsDescribed]_vars

\* Once set, the conversation id and the token keep their values; they are
\* set by a successful start-conversation response, and every successful
\* response leaves them set; _send_query is entered only from the
\* _start_conversation of the same call.
ConversationIsKept ==
    mcs_agent # NoAgent =>
        /\ mcs_agent._conversation_id # None =>
               mcs_agent'._conversation_id = mcs_agent._conversation_id
        /\ mcs_agent._token # None => mcs_agent'._token = mcs_agent._token
        /\ (\/ mcs_agent'._conversation_id # mcs_agent._conversation_id
            \/ mcs_agent'._token # mcs_agent._token) =>
               (activation.pc = "start" /\ activation'.pc = "send")
        /\ (activation.pc = "start" /\ activation'.pc = "send") =>
               /\ mcs_agent'._conversation_id # None
               /\ mcs_agent'._token # None
        /\ (activation'.pc = "send" /\ activation.pc # "send") =>
               activation.pc = "start"

\* _start_conversation authenticates with the agent key while no token is
\* stored and with the stored token afterwards; _send_query authenticates
\* with the stored token.
AuthenticatesWithStoredToken ==
    /\ activation.pc = "start" =>
           activation.authorization =
               IF mcs_agent._token = None
               THEN "Bearer MCS_AGENT_KEY"
               ELSE "Bearer " \o mcs_agent._token
    /\ activation.pc = "send" =>
           /\ mcs_agent._token # None
           /\ activation.authorization = "Bearer " \o mcs_agent._token

====
